---------------------------- MODULE Spec2Model ----------------------------
(***************************************************************************)
(* Model of internal/providers/terraform/hcl_provider.go: the HCLProvider  *)
(* that turns parsed hcl.Modules into a shallow terraform plan JSON.       *)
(*                                                                         *)
(* Three groups of specifications share the definitions below:             *)
(*   Spec, SpecProviders, SpecEncode                                       *)
(*                     loadPlanJSON / modulesToPlanJSON, stepped one block *)
(*                     of one pass at a time, over three pools of inputs:  *)
(*                     root and nested resources; provider blocks and the  *)
(*                     resources choosing among them; resources whose      *)
(*                     values are null or cannot be encoded;               *)
(*   SpecRefs          blockToReferences applied to a drawn block tree;    *)
(*   SpecMarshal       marshalAttributeValues then marshalBlock applied to *)
(*                     a drawn block tree.                                 *)
(*                                                                         *)
(* Go maps are functions from strings.  A map that may be nil is a record  *)
(* [nil, kv]; map values of different Go types are tagged records:         *)
(*   [raw |-> bytes]        a json.RawMessage                              *)
(*   [list |-> <<...>>]     a []interface{}                                *)
(*   [References |-> <<>>]  a refs struct                                  *)
(* Attribute names and nested block kinds are drawn from disjoint sets, as *)
(* in a terraform schema, where a name is either an argument or a block.   *)
(***************************************************************************)
EXTENDS Naturals, Sequences, FiniteSets, TLC

VARIABLES
    modules,        \* the []*hcl.Module the parser returns
    pc,             \* position of the running call
    mi,             \* index of the module being ranged over
    bi,             \* index of the block being ranged over
    providerKey,    \* var providerKey string of the current module
    sch,            \* the PlanSchema under construction
    ret,            \* what loadPlanJSON returned
    block,          \* SpecRefs / SpecMarshal: the block the function is applied to
    out             \* SpecRefs / SpecMarshal: the map the function produced

vars == <<modules, pc, mi, bi, providerKey, sch, ret, block, out>>

-----------------------------------------------------------------------------
(* Bounds *)

MaxModules == 2
MaxBlocks == 3
MaxRefs == 2
MaxChildren == 2

-----------------------------------------------------------------------------
(* cty values, attributes and blocks *)

Val(t, v) == [t |-> t, v |-> v]
NilVal == Val("nil", "")
Unknown == Val("unknown", "")
Str(s) == Val("string", s)
Num(n) == Val("number", n)   \* n: the number's digits

Attr(n, v, r) == [name |-> n, value |-> v, refs |-> r]
NoAttribute == Attr("", NilVal, <<>>)

Ref(t, n) == [typeLabel |-> t, nameLabel |-> n]

NoModuleBlock == [has |-> FALSE, name |-> "", source |-> ""]
ModuleBlock(n, s) == [has |-> TRUE, name |-> n, source |-> s]

Blk(type, typeLabel, nameLabel, mod, attrs, null, children) ==
    [type |-> type, typeLabel |-> typeLabel, nameLabel |-> nameLabel,
     moduleBlock |-> mod, attrs |-> attrs, null |-> null, children |-> children]

EmptyBlock == Blk("", "", "", NoModuleBlock, <<>>, FALSE, <<>>)

Type(b) == b.type
TypeLabel(b) == b.typeLabel
NameLabel(b) == b.nameLabel
Children(b) == b.children
GetAttributes(b) == b.attrs
HasModuleBlock(b) == b.moduleBlock.has
ModuleName(b) == b.moduleBlock.name
ModuleSource(b) == b.moduleBlock.source
LocalName(b) == b.typeLabel \o "." \o b.nameLabel
ModuleAddress(b) == IF HasModuleBlock(b) THEN "module." \o ModuleName(b) ELSE ""
FullName(b) == IF HasModuleBlock(b) THEN ModuleAddress(b) \o "." \o LocalName(b) ELSE LocalName(b)
Provider(b) == "aws"
RefString(r) == r.typeLabel \o "." \o r.nameLabel

HasAttribute(b, name) == \E i \in 1..Len(b.attrs) : b.attrs[i].name = name

GetAttribute(b, name) ==
    IF HasAttribute(b, name)
    THEN b.attrs[CHOOSE i \in 1..Len(b.attrs) :
                    /\ b.attrs[i].name = name
                    /\ \A j \in 1..(i - 1) : b.attrs[j].name # name]
    ELSE NoAttribute

\* Attribute.Value(): a nil attribute has no value
Value(a) == a.value
AsString(v) == v.v

\* Block.Values(): the object of the block's attribute values, or null
Values(b) ==
    [null |-> b.null,
     elems |-> [k \in {b.attrs[i].name : i \in 1..Len(b.attrs)} |-> GetAttribute(b, k).value]]

-----------------------------------------------------------------------------
(* encoding *)

NilBytes == "<nil>"

\* ctyJson.Marshal(v, v.Type()): an unknown value cannot be encoded
CtyJsonMarshal(v) ==
    CASE v.t = "unknown" -> [bytes |-> NilBytes, err |-> TRUE]
      [] v.t = "string"  -> [bytes |-> "\"" \o v.v \o "\"", err |-> FALSE]
      [] v.t = "nil"     -> [bytes |-> "null", err |-> FALSE]
      [] OTHER           -> [bytes |-> v.v, err |-> FALSE]

NilMap == [nil |-> TRUE, kv |-> <<>>]
MakeMap(f) == [nil |-> FALSE, kv |-> f]

\* faulty variant: count is skipped for module blocks only
IsMetaCountModuleOnly(blockType, key) == blockType = "module" /\ key = "count"

IsMetaCount(blockType, key) ==
    (blockType = "resource" \/ blockType = "module") /\ key = "count"

marshalAttributeValues(blockType, value) ==
    IF value.null
    THEN NilMap
    ELSE MakeMap([k \in {key \in DOMAIN value.elems : ~IsMetaCount(blockType, key)} |->
                    [raw |-> CtyJsonMarshal(value.elems[k]).bytes]])

RECURSIVE marshalBlock(_, _)
RECURSIVE marshalChildren(_, _, _)

\* one iteration of marshalBlock's loop over block.Children(), then the rest;
\* res = [panic, m]: whether the call panicked, and the map as mutated so far
marshalChildren(children, i, jsonValues) ==
    IF i > Len(children)
    THEN [panic |-> FALSE, m |-> jsonValues]
    ELSE LET b == children[i]
             childValues == marshalAttributeValues(Type(b), Values(b))
             sub == IF Len(Children(b)) > 0
                    THEN marshalBlock(b, childValues)
                    ELSE [panic |-> FALSE, m |-> childValues]
         IN  IF sub.panic
             THEN [panic |-> TRUE, m |-> jsonValues]
             ELSE IF Type(b) \in DOMAIN jsonValues.kv
                  THEN IF "list" \in DOMAIN jsonValues.kv[Type(b)]
                       THEN marshalChildren(children, i + 1,
                                [jsonValues EXCEPT !.kv[Type(b)] =
                                    [list |-> Append(@.list, sub.m)]])
                       ELSE [panic |-> TRUE, m |-> jsonValues]
                  ELSE IF jsonValues.nil
                       THEN [panic |-> TRUE, m |-> jsonValues]
                       ELSE marshalChildren(children, i + 1,
                                [jsonValues EXCEPT !.kv =
                                    [k \in DOMAIN @ \cup {Type(b)} |->
                                        IF k = Type(b) THEN [list |-> <<sub.m>>] ELSE @[k]]])

marshalBlock(b, jsonValues) == marshalChildren(Children(b), 1, jsonValues)

-----------------------------------------------------------------------------
(* references *)

RECURSIVE blockToReferences(_)
RECURSIVE childExpressionsOf(_, _, _)
RECURSIVE attributeLoop(_, _, _)

RefStrings(references) == [i \in 1..Len(references) |-> RefString(references[i])]

SetKey(m, k, v) == [x \in DOMAIN m \cup {k} |-> IF x = k THEN v ELSE m[x]]

\* the loop over block.Children() that fills childExpressions
childExpressionsOf(children, i, childExpressions) ==
    IF i > Len(children)
    THEN childExpressions
    ELSE LET child == children[i]
             vals == IF Type(child) \in DOMAIN childExpressions
                     THEN childExpressions[Type(child)] ELSE <<>>
             childReferences == blockToReferences(child)
         IN  IF Cardinality(DOMAIN childReferences) > 0
             THEN childExpressionsOf(children, i + 1,
                      SetKey(childExpressions, Type(child), Append(vals, childReferences)))
             ELSE childExpressionsOf(children, i + 1, childExpressions)

\* faulty variant: the entry is written whether or not the attribute has references
attributeEntryUnguarded(expressionValues, attribute) ==
    SetKey(expressionValues, attribute.name, [References |-> RefStrings(attribute.refs)])

\* lines 257-265: the entry of one attribute
attributeEntry(expressionValues, attribute) ==
    LET references == attribute.refs
    IN  IF Len(references) > 0
        THEN SetKey(expressionValues, attribute.name, [References |-> RefStrings(references)])
        ELSE expressionValues

\* lines 267-281: the entries of the children, computed afresh and merged in
childEntries(expressionValues, b) ==
    LET childExpressions == childExpressionsOf(Children(b), 1, <<>>)
    IN  [k \in DOMAIN expressionValues \cup DOMAIN childExpressions |->
            IF k \in DOMAIN childExpressions
            THEN [list |-> childExpressions[k]]
            ELSE expressionValues[k]]

\* the loop over block.GetAttributes(); the children are walked inside it
attributeLoop(b, i, expressionValues) ==
    IF i > Len(GetAttributes(b))
    THEN expressionValues
    ELSE attributeLoop(b, i + 1,
             childEntries(attributeEntry(expressionValues, GetAttributes(b)[i]), b))

blockToReferences(b) == attributeLoop(b, 1, <<>>)


-----------------------------------------------------------------------------
(* input pools of the two function specifications *)

SeqsUpTo(S, n) == UNION {[1..k -> S] : k \in 0..n}

\* for each name in order, the attribute is absent or present with one of alts
RECURSIVE AttrLists(_, _)
AttrLists(names, alts) ==
    IF names = <<>>
    THEN {<<>>}
    ELSE LET rest == AttrLists(Tail(names), alts)
         IN  rest \cup {<<a>> \o r : a \in {x \in alts : x.name = Head(names)}, r \in rest}

ChildKinds == {"ebs_block_device", "tags"}

RefAddrs == {Ref("var", "a"), Ref("aws_vpc", "main")}
RefLists == SeqsUpTo(RefAddrs, MaxRefs)
OneRef == <<Ref("aws_kms_key", "k")>>

RefLeaves ==
    {Blk("tags", "", "", NoModuleBlock, a, FALSE, <<>>) :
        a \in {<<>>, <<Attr("key", Str("k"), OneRef)>>}}
RefMids ==
    {Blk(k, "", "", NoModuleBlock, a, FALSE, c) :
        k \in ChildKinds,
        a \in {<<>>, <<Attr("size", Num("8"), OneRef)>>},
        c \in {<<>>} \cup {<<l>> : l \in RefLeaves}}
RefAttrs == {Attr(n, Str("x"), r) : n \in {"ami", "subnet_id"}, r \in RefLists}
RefTop(a, c) == Blk("resource", "aws_instance", "web", NoModuleBlock, a, FALSE, c)

ValLeaves ==
    {Blk("tags", "", "", NoModuleBlock, a, n, <<>>) :
        a \in {<<>>}, n \in BOOLEAN}
ValMids ==
    {Blk(k, "", "", NoModuleBlock, a[1], a[2], c) :
        k \in ChildKinds,
        a \in {<<<<>>, TRUE>>, <<<<>>, FALSE>>, <<<<Attr("count", Num("1"), <<>>)>>, FALSE>>},
        c \in {<<>>} \cup {<<l>> : l \in ValLeaves}}
ValAttrs == {Attr(n, v, <<>>) : n \in {"count", "ami"}, v \in {Num("3"), Str("a"), Unknown}}
\* the values of the block are null, or the object of its attributes
ValBodies ==
    {<<<<>>, TRUE>>} \cup {<<l, FALSE>> : l \in AttrLists(<<"count", "ami">>, ValAttrs)}
ValTop(a, c) == Blk("resource", "aws_instance", "web", NoModuleBlock, a[1], a[2], c)

-----------------------------------------------------------------------------
(* the schema document *)

EmptySchema ==
    [FormatVersion |-> "1.0",
     TerraformVersion |-> "1.1.0",
     PlannedValues |-> [RootModule |-> [Resources |-> <<>>,
                                        ChildModules |-> <<[Resources |-> <<>>]>>]],
     ResourceChanges |-> <<>>,
     Configuration |-> [ProviderConfig |-> <<>>,
                        RootModule |-> [Resources |-> <<>>, ModuleCalls |-> <<>>]]]

NoReturn == [returned |-> FALSE, err |-> "", bytes |-> <<>>]

Idle ==
    /\ modules = <<>>
    /\ mi = 0
    /\ bi = 0
    /\ providerKey = ""
    /\ sch = EmptySchema
    /\ ret = NoReturn

-----------------------------------------------------------------------------
(* SpecRefs: blockToReferences on a drawn block *)

InitRefs ==
    /\ Idle
    /\ \E a \in AttrLists(<<"ami", "subnet_id">>, RefAttrs) :
        \E k \in 0..MaxChildren :
            \E c \in [1..k -> RefMids] : block = RefTop(a, c)
    /\ out = <<>>
    /\ pc = "refs"

BlockToReferences ==
    /\ pc = "refs"
    /\ out' = blockToReferences(block)
    /\ pc' = "refsDone"
    /\ UNCHANGED <<modules, mi, bi, providerKey, sch, ret, block>>

NextRefs == BlockToReferences

SpecRefs == InitRefs /\ [][NextRefs]_vars

-----------------------------------------------------------------------------
(* SpecMarshal: marshalAttributeValues, then marshalBlock, on a drawn block *)

InitMarshal ==
    /\ Idle
    /\ \E a \in ValBodies :
        \E k \in 0..MaxChildren :
            \E c \in [1..k -> ValMids] : block = ValTop(a, c)
    /\ out = NilMap
    /\ pc = "values"

MarshalAttributeValues ==
    /\ pc = "values"
    /\ out' = marshalAttributeValues(Type(block), Values(block))
    /\ pc' = "children"
    /\ UNCHANGED <<modules, mi, bi, providerKey, sch, ret, block>>

MarshalBlock ==
    /\ pc = "children"
    /\ LET res == marshalBlock(block, out)
       IN  /\ out' = res.m
           /\ pc' = IF res.panic THEN "panic" ELSE "marshalled"
    /\ UNCHANGED <<modules, mi, bi, providerKey, sch, ret, block>>

NextMarshal == MarshalAttributeValues \/ MarshalBlock

SpecMarshal == InitMarshal /\ [][NextMarshal]_vars

-----------------------------------------------------------------------------
(* input pools of Spec and SpecEncode *)

RECURSIVE Sum(_)
Sum(lens) == IF lens = <<>> THEN 0 ELSE Head(lens) + Sum(Tail(lens))

\* the blocks flat, cut into modules of the lengths lens
Cut(flat, lens) ==
    [j \in 1..Len(lens) |->
        [Blocks |-> SubSeq(flat, Sum(SubSeq(lens, 1, j - 1)) + 1, Sum(SubSeq(lens, 1, j)))]]

ProviderBlocks ==
    {Blk("provider", "aws", "", NoModuleBlock, a, FALSE, <<>>) :
        a \in AttrLists(<<"alias", "region">>,
                        {Attr("alias", Str("west"), <<>>),
                         Attr("region", Str("us-east-1"), <<>>)})}

DataBlock == Blk("data", "aws_ami", "ubuntu", NoModuleBlock, <<>>, FALSE, <<>>)

PlainAttrs == <<Attr("count", Num("2"), <<>>), Attr("ami", Str("a"), <<Ref("var", "a")>>)>>
PlainChildren ==
    <<Blk("ebs_block_device", "", "", NoModuleBlock,
          <<Attr("size", Num("8"), <<>>)>>, FALSE, <<>>)>>

\* no provider attribute, a string one, one that is not of type string
ProviderAttrs ==
    {<<>>, <<Attr("provider", Str("aws.east"), <<>>)>>, <<Attr("provider", Unknown, <<>>)>>}

CalledModules == {ModuleBlock(n, "./modules/" \o n) : n \in {"net", "db"}}

RootResources ==
    {Blk("resource", "aws_instance", "web", NoModuleBlock, p \o PlainAttrs, FALSE, PlainChildren) :
        p \in ProviderAttrs}
NestedResources ==
    {Blk("resource", "aws_instance", "web", m, PlainAttrs, FALSE, PlainChildren) :
        m \in CalledModules}
PlainProvider == Blk("provider", "aws", "", NoModuleBlock, <<>>, FALSE, <<>>)
PlainResource ==
    Blk("resource", "aws_instance", "web", NoModuleBlock, PlainAttrs, FALSE, PlainChildren)

\* Spec: every kind of block, root and nested resources
BlockPool == {PlainProvider, DataBlock, PlainResource} \cup NestedResources

\* SpecProviders: the provider blocks and the resources that choose among them
ProviderPool == ProviderBlocks \cup RootResources

EncodeResources ==
    {Blk("resource", "aws_instance", "web", m, a[1], a[2], c) :
        m \in {NoModuleBlock, ModuleBlock("net", "./modules/net")},
        a \in {<<<<>>, TRUE>>,
               <<<<Attr("ami", Str("a"), <<>>)>>, FALSE>>,
               <<<<Attr("ami", Unknown, <<>>)>>, FALSE>>},
        c \in {<<>>,
               <<Blk("ebs_block_device", "", "", NoModuleBlock,
                     <<Attr("size", Unknown, <<>>)>>, FALSE, <<>>)>>}}

\* SpecEncode: resources whose values are null, or cannot be encoded
EncodePool == {PlainProvider} \cup EncodeResources

-----------------------------------------------------------------------------
(* json.Marshal of the schema document *)

\* json.RawMessage.MarshalJSON: nil bytes are written as null
RawMessageJSON(bytes) == IF bytes = NilBytes THEN "null" ELSE bytes

RECURSIVE MapJSON(_)
MapJSON(m) ==
    IF m.nil
    THEN [json |-> "null"]
    ELSE [object |-> [k \in DOMAIN m.kv |->
                        IF "raw" \in DOMAIN m.kv[k]
                        THEN [json |-> RawMessageJSON(m.kv[k].raw)]
                        ELSE [array |-> [i \in 1..Len(m.kv[k].list) |-> MapJSON(m.kv[k].list[i])]]]]

ResourceJSONBytes(r) ==
    [address |-> r.Address, mode |-> r.Mode, type |-> r.Type, name |-> r.Name,
     schema_version |-> r.SchemaVersion, values |-> MapJSON(r.Values)]

ResourceChangesJSONBytes(c) ==
    [address |-> c.Address, module_address |-> c.ModuleAddress, mode |-> c.Mode,
     type |-> c.Type, name |-> c.Name,
     change |-> [actions |-> c.Change.Actions, before |-> "null",
                 after |-> MapJSON(c.Change.After)]]

Each(s, Op(_)) == [i \in 1..Len(s) |-> Op(s[i])]

jsonMarshal(doc) ==
    [format_version |-> doc.FormatVersion,
     terraform_version |-> doc.TerraformVersion,
     planned_values |->
        [root_module |->
            [resources |-> Each(doc.PlannedValues.RootModule.Resources, ResourceJSONBytes),
             child_modules |->
                Each(doc.PlannedValues.RootModule.ChildModules,
                     LAMBDA cm : [resources |-> Each(cm.Resources, ResourceJSONBytes)])]],
     resource_changes |-> Each(doc.ResourceChanges, ResourceChangesJSONBytes),
     configuration |-> doc.Configuration]

-----------------------------------------------------------------------------
(* modulesToPlanJSON, pass 1: the provider blocks of a module *)

\* lines 147-150
providerName(b) ==
    IF HasAttribute(b, "alias")
    THEN AsString(Value(GetAttribute(b, "alias")))
    ELSE TypeLabel(b)

\* faulty variant: every provider block becomes the default, so the last one stays
defaultProviderKeyLast(key, name) == name

\* lines 153-155
defaultProviderKey(key, name) == IF key = "" THEN name ELSE key

\* lines 157-161
providerRegion(b) ==
    LET value == Value(GetAttribute(b, "region"))
    IN  IF value # NilVal THEN AsString(value) ELSE ""

\* faulty variant: an entry already present is kept
setProviderConfigOnce(providerConfig, name, region) ==
    IF name \in DOMAIN providerConfig
    THEN providerConfig
    ELSE SetKey(providerConfig, name,
                [Name |-> name,
                 Expressions |-> [region |-> [constant_value |-> region]]])

\* lines 163-170
setProviderConfig(providerConfig, name, region) ==
    SetKey(providerConfig, name,
           [Name |-> name,
            Expressions |-> [region |-> [constant_value |-> region]]])

\* faulty variant: providerKey is declared outside the loop over the modules
keptProviderKey(key) == key

\* line 143: var providerKey string, declared afresh for every module
freshProviderKey(key) == ""

-----------------------------------------------------------------------------
(* modulesToPlanJSON, pass 2: the resource blocks of a module *)

\* lines 176-182, 199
plannedResource(b, jsonValues) ==
    [Address |-> FullName(b), Mode |-> "managed", Type |-> TypeLabel(b),
     Name |-> NameLabel(b), SchemaVersion |-> 1, Values |-> jsonValues]

\* lines 184-193, 198
resourceChange(b, jsonValues) ==
    [Address |-> FullName(b), ModuleAddress |-> ModuleAddress(b), Mode |-> "managed",
     Type |-> TypeLabel(b), Name |-> NameLabel(b),
     Change |-> [Actions |-> <<"create">>, After |-> jsonValues]]

\* lines 201-208
providerConfigKeyOf(b, key) ==
    IF HasAttribute(b, "provider") /\ Value(GetAttribute(b, "provider")).t = "string"
    THEN AsString(Value(GetAttribute(b, "provider")))
    ELSE key

\* lines 211-229
addToModuleCall(moduleCalls, b) ==
    LET modCall == IF ModuleName(b) \in DOMAIN moduleCalls
                   THEN moduleCalls[ModuleName(b)]
                   ELSE [Source |-> ModuleSource(b), Module |-> [Resources |-> <<>>]]
        data == [Address |-> LocalName(b), Mode |-> "managed", Type |-> TypeLabel(b),
                 Name |-> NameLabel(b),
                 ProviderConfigKey |-> ModuleName(b) \o ":" \o Provider(b),
                 Expressions |-> blockToReferences(b)]
    IN  SetKey(moduleCalls, ModuleName(b),
               [modCall EXCEPT !.Module.Resources = Append(@, data)])

\* lines 233-240
rootResourceData(b, key) ==
    [Address |-> FullName(b), Mode |-> "managed", Type |-> TypeLabel(b),
     Name |-> LocalName(b), ProviderConfigKey |-> key,
     Expressions |-> blockToReferences(b)]

\* faulty variant: the planned record of a nested resource also goes to the root list
placeResourceBoth(doc, b, r, key) ==
    IF HasModuleBlock(b)
    THEN [doc EXCEPT
            !.Configuration.RootModule.ModuleCalls = addToModuleCall(@, b),
            !.PlannedValues.RootModule.ChildModules[1].Resources = Append(@, r),
            !.PlannedValues.RootModule.Resources = Append(@, r)]
    ELSE [doc EXCEPT
            !.Configuration.RootModule.Resources = Append(@, rootResourceData(b, key)),
            !.PlannedValues.RootModule.Resources = Append(@, r)]

\* lines 210-243: the declaration and the planned record go to one side
placeResource(doc, b, r, key) ==
    IF HasModuleBlock(b)
    THEN [doc EXCEPT
            !.Configuration.RootModule.ModuleCalls = addToModuleCall(@, b),
            !.PlannedValues.RootModule.ChildModules[1].Resources = Append(@, r)]
    ELSE [doc EXCEPT
            !.Configuration.RootModule.Resources = Append(@, rootResourceData(b, key)),
            !.PlannedValues.RootModule.Resources = Append(@, r)]

\* faulty variant: the change record replaces the list instead of extending it
appendChangeReplacing(doc, c) == [doc EXCEPT !.ResourceChanges = <<c>>]

\* line 245
appendChange(doc, c) == [doc EXCEPT !.ResourceChanges = Append(@, c)]

-----------------------------------------------------------------------------
(* loadPlanJSON *)

InitOf(pool) ==
    /\ \E m \in 0..MaxModules :
        \E lens \in [1..m -> 0..MaxBlocks] :
            /\ Sum(lens) <= MaxBlocks
            /\ \E flat \in [1..Sum(lens) -> pool] : modules = Cut(flat, lens)
    /\ pc = "parse"
    /\ mi = 0
    /\ bi = 0
    /\ providerKey = ""
    /\ sch = EmptySchema
    /\ ret = NoReturn
    /\ block = EmptyBlock
    /\ out = NilMap

Init == InitOf(BlockPool)
InitProviders == InitOf(ProviderPool)
InitEncode == InitOf(EncodePool)

CurrentBlock == modules[mi].Blocks[bi]
InModule == mi \in 1..Len(modules)
AtBlock == InModule /\ bi \in 1..Len(modules[mi].Blocks)

\* line 103-106: the parser fails and its error is returned unchanged
ParseDirectoryFails ==
    /\ pc = "parse"
    /\ pc' = "done"
    /\ ret' = [returned |-> TRUE, err |-> "parse", bytes |-> <<>>]
    /\ UNCHANGED <<modules, mi, bi, providerKey, sch, block, out>>

\* line 103, 108, 117-140: the parser succeeds, the document is created
ParseDirectory ==
    /\ pc = "parse"
    /\ pc' = "module"
    /\ mi' = 1
    /\ sch' = EmptySchema
    /\ UNCHANGED <<modules, bi, providerKey, ret, block, out>>

\* line 142-143: the next module, if any
NextModule ==
    /\ pc = "module"
    /\ InModule
    /\ providerKey' = freshProviderKey(providerKey)
    /\ bi' = 1
    /\ pc' = "providers"
    /\ UNCHANGED <<modules, mi, sch, ret, block, out>>

\* lines 146-171: one provider block of the first loop
ProviderBlock ==
    /\ pc = "providers"
    /\ AtBlock
    /\ Type(CurrentBlock) = "provider"
    /\ LET name == providerName(CurrentBlock)
       IN  /\ providerKey' = defaultProviderKey(providerKey, name)
           /\ sch' = [sch EXCEPT !.Configuration.ProviderConfig =
                        setProviderConfig(@, name, providerRegion(CurrentBlock))]
    /\ bi' = bi + 1
    /\ UNCHANGED <<modules, pc, mi, ret, block, out>>

\* line 146: any other block is passed over by the first loop
ProviderPassSkip ==
    /\ pc = "providers"
    /\ AtBlock
    /\ Type(CurrentBlock) # "provider"
    /\ bi' = bi + 1
    /\ UNCHANGED <<modules, pc, mi, providerKey, sch, ret, block, out>>

\* lines 172-174: the first loop ends, the second starts
ProviderPassEnds ==
    /\ pc = "providers"
    /\ InModule
    /\ bi > Len(modules[mi].Blocks)
    /\ bi' = 1
    /\ pc' = "resources"
    /\ UNCHANGED <<modules, mi, providerKey, sch, ret, block, out>>

\* lines 175-246: one resource block of the second loop
ResourceBlock ==
    /\ pc = "resources"
    /\ AtBlock
    /\ Type(CurrentBlock) = "resource"
    /\ LET b == CurrentBlock
           res == marshalBlock(b, marshalAttributeValues(Type(b), Values(b)))
           jsonValues == res.m
           key == providerConfigKeyOf(b, providerKey)
       IN  IF res.panic
           THEN /\ pc' = "panic"
                /\ UNCHANGED <<sch, bi>>
           ELSE /\ sch' = appendChange(placeResource(sch, b, plannedResource(b, jsonValues), key),
                                       resourceChange(b, jsonValues))
                /\ bi' = bi + 1
                /\ pc' = pc
    /\ UNCHANGED <<modules, mi, providerKey, ret, block, out>>

\* line 175: any other block is passed over by the second loop
ResourcePassSkip ==
    /\ pc = "resources"
    /\ AtBlock
    /\ Type(CurrentBlock) # "resource"
    /\ bi' = bi + 1
    /\ UNCHANGED <<modules, pc, mi, providerKey, sch, ret, block, out>>

\* lines 247-248: the second loop ends
ResourcePassEnds ==
    /\ pc = "resources"
    /\ InModule
    /\ bi > Len(modules[mi].Blocks)
    /\ mi' = mi + 1
    /\ pc' = "module"
    /\ UNCHANGED <<modules, bi, providerKey, sch, ret, block, out>>

\* lines 250, 108-113: the document is serialised and returned
Return ==
    /\ pc = "module"
    /\ mi > Len(modules)
    /\ ret' = [returned |-> TRUE, err |-> "", bytes |-> jsonMarshal(sch)]
    /\ pc' = "done"
    /\ UNCHANGED <<modules, mi, bi, providerKey, sch, block, out>>

Next ==
    \/ ParseDirectoryFails
    \/ ParseDirectory
    \/ NextModule
    \/ ProviderBlock
    \/ ProviderPassSkip
    \/ ProviderPassEnds
    \/ ResourceBlock
    \/ ResourcePassSkip
    \/ ResourcePassEnds
    \/ Return

Spec == Init /\ [][Next]_vars
SpecProviders == InitProviders /\ [][Next]_vars
SpecEncode == InitEncode /\ [][Next]_vars

-----------------------------------------------------------------------------
(* what the claims speak of *)

\* the blocks of the input in module, then block order, each with its module
RECURSIVE EntriesFrom(_)
EntriesFrom(j) ==
    IF j > Len(modules)
    THEN <<>>
    ELSE [i \in 1..Len(modules[j].Blocks) |-> [mod |-> j, blk |-> modules[j].Blocks[i]]]
         \o EntriesFrom(j + 1)

Entries == EntriesFrom(1)
OfKind(kind) == SelectSeq(Entries, LAMBDA e : e.blk.type = kind)
ResourceEntries == OfKind("resource")
ProviderEntries == OfKind("provider")
RootEntries == SelectSeq(ResourceEntries, LAMBDA e : ~e.blk.moduleBlock.has)
NestedEntries == SelectSeq(ResourceEntries, LAMBDA e : e.blk.moduleBlock.has)
NestedIn(n) == SelectSeq(NestedEntries, LAMBDA e : e.blk.moduleBlock.name = n)

Addresses(records) == [i \in 1..Len(records) |-> records[i].Address]
FullNames(entries) == [i \in 1..Len(entries) |-> FullName(entries[i].blk)]

\* alias attribute if present, else type label
EffectiveName(b) ==
    IF \E i \in 1..Len(b.attrs) : b.attrs[i].name = "alias"
    THEN GetAttribute(b, "alias").value.v
    ELSE b.typeLabel

ProvidersOf(j) == SelectSeq(modules[j].Blocks, LAMBDA b : b.type = "provider")
PlainProvidersOf(j) ==
    SelectSeq(ProvidersOf(j), LAMBDA b : \A i \in 1..Len(b.attrs) : b.attrs[i].name # "alias")
FirstProviderName(j) ==
    IF ProvidersOf(j) = <<>> THEN "" ELSE EffectiveName(Head(ProvidersOf(j)))

Converted == pc = "done" /\ ret.err = ""

PlannedRoot == sch.PlannedValues.RootModule.Resources
PlannedChild == sch.PlannedValues.RootModule.ChildModules[1].Resources
ConfigRoot == sch.Configuration.RootModule.Resources
ModuleCalls == sch.Configuration.RootModule.ModuleCalls
ProviderConfigs == sch.Configuration.ProviderConfig

-----------------------------------------------------------------------------
(* Claims of Spec *)

\* C1: after modulesToPlanJSON, ResourceChanges has one entry per resource
\* block of the input, in order, and none for a block of another kind; the
\* planned records of the root module and of the child bucket together are
\* as many.
C1_OneChangePerResource ==
    Converted =>
        /\ Len(sch.ResourceChanges) = Len(ResourceEntries)
        /\ Addresses(sch.ResourceChanges) = FullNames(ResourceEntries)
        /\ Len(PlannedRoot) + Len(PlannedChild) = Len(ResourceEntries)
        /\ Len(sch.ResourceChanges) = Len(PlannedRoot) + Len(PlannedChild)

C1_Witness ==
    /\ Converted
    /\ Len(RootEntries) >= 1
    /\ Len(NestedEntries) >= 1
    /\ Len(Entries) > Len(ResourceEntries)
    /\ Len(sch.ResourceChanges) = 2

\* C2: a resource block lands on one side only.  Nested in a module call, its
\* declaration is under ModuleCalls[ModuleName] and its planned record in
\* ChildModules[0]; otherwise both are in the root lists.  ChildModules always
\* holds exactly one bucket.
C2_OneSideOnly ==
    /\ Len(sch.PlannedValues.RootModule.ChildModules) = 1
    /\ Converted =>
        /\ Addresses(ConfigRoot) = FullNames(RootEntries)
        /\ Addresses(PlannedRoot) = FullNames(RootEntries)
        /\ Addresses(PlannedChild) = FullNames(NestedEntries)
        /\ DOMAIN ModuleCalls = {NestedEntries[i].blk.moduleBlock.name : i \in 1..Len(NestedEntries)}
        /\ \A n \in DOMAIN ModuleCalls :
            /\ Len(ModuleCalls[n].Module.Resources) = Len(NestedIn(n))
            /\ \A i \in 1..Len(NestedIn(n)) :
                /\ ModuleCalls[n].Module.Resources[i].Address = LocalName(NestedIn(n)[i].blk)
                /\ ModuleCalls[n].Source = NestedIn(n)[i].blk.moduleBlock.source

C2_Witness ==
    /\ Converted
    /\ Len(RootEntries) = 1
    /\ Cardinality(DOMAIN ModuleCalls) = 2
    /\ Len(PlannedChild) = 2
    /\ Len(PlannedRoot) = 1

-----------------------------------------------------------------------------
(* Claims of SpecProviders *)

\* C5, as stated: a root resource without a provider attribute gets the type
\* label of the first provider block of its module that has no alias.
C5_FirstPlainProviderIsDefault ==
    Converted =>
        \A i \in 1..Len(RootEntries) :
            LET e == RootEntries[i]
            IN  (~HasAttribute(e.blk, "provider") /\ PlainProvidersOf(e.mod) # <<>>)
                    => ConfigRoot[i].ProviderConfigKey = Head(PlainProvidersOf(e.mod)).typeLabel

\* C5, amended: while the resources of a module are ranged over, the default
\* provider key is the effective name of the first provider block of that
\* module, aliased or not, and empty when the module has none.
C5_FirstProviderIsDefault ==
    pc = "resources" => providerKey = FirstProviderName(mi)

C5_Witness ==
    /\ pc = "resources"
    /\ Len(ProvidersOf(mi)) >= 2
    /\ HasAttribute(ProvidersOf(mi)[1], "alias")
    /\ ~HasAttribute(ProvidersOf(mi)[2], "alias")
    /\ providerKey = "west"

\* C6: the provider_config_key of a root resource is its own provider
\* attribute when that is a string, and otherwise the effective name of the
\* first provider block of the resource's own module.
C6_ProviderConfigKey ==
    Converted =>
        /\ Len(ConfigRoot) = Len(RootEntries)
        /\ \A i \in 1..Len(RootEntries) :
            LET e == RootEntries[i]
                own == GetAttribute(e.blk, "provider")
            IN  ConfigRoot[i].ProviderConfigKey =
                    IF HasAttribute(e.blk, "provider") /\ own.value.t = "string"
                    THEN own.value.v
                    ELSE FirstProviderName(e.mod)

C6_Witness ==
    /\ Converted
    /\ Len(modules) = 2
    /\ FirstProviderName(1) = "west"
    /\ FirstProviderName(2) = "aws"
    /\ Len(RootEntries) = 1
    /\ RootEntries[1].mod = 2
    /\ ~HasAttribute(RootEntries[1].blk, "provider")
    /\ ConfigRoot[1].ProviderConfigKey = "aws"

\* C10: ProviderConfig has one entry per effective name of a provider block;
\* its Name is its key and its region is that of the last provider block of
\* that name, empty when that block has no region attribute.
LastProviderNamed(k) ==
    ProviderEntries[CHOOSE i \in 1..Len(ProviderEntries) :
                        /\ EffectiveName(ProviderEntries[i].blk) = k
                        /\ \A j \in (i + 1)..Len(ProviderEntries) :
                               EffectiveName(ProviderEntries[j].blk) # k].blk

C10_ProviderConfig ==
    Converted =>
        /\ DOMAIN ProviderConfigs =
              {EffectiveName(ProviderEntries[i].blk) : i \in 1..Len(ProviderEntries)}
        /\ \A k \in DOMAIN ProviderConfigs :
            /\ ProviderConfigs[k].Name = k
            /\ ProviderConfigs[k].Expressions.region.constant_value =
                  IF HasAttribute(LastProviderNamed(k), "region")
                  THEN GetAttribute(LastProviderNamed(k), "region").value.v
                  ELSE ""

C10_Witness ==
    /\ Converted
    /\ Len(ProviderEntries) = 2
    /\ EffectiveName(ProviderEntries[1].blk) = EffectiveName(ProviderEntries[2].blk)
    /\ HasAttribute(ProviderEntries[1].blk, "region")
    /\ ~HasAttribute(ProviderEntries[2].blk, "region")
    /\ ProviderConfigs[EffectiveName(ProviderEntries[1].blk)].Expressions.region.constant_value = ""

-----------------------------------------------------------------------------
(* Claim of SpecEncode *)

RECURSIVE FailsToEncode(_)
FailsToEncode(b) ==
    \/ ~b.null /\ \E i \in 1..Len(b.attrs) : CtyJsonMarshal(b.attrs[i].value).err
    \/ \E i \in 1..Len(b.children) : FailsToEncode(b.children[i])

\* C4, as stated: when an attribute value of a resource block cannot be
\* encoded, loadPlanJSON returns an error and no document.
C4_EncodeErrorAborts ==
    (pc = "done" /\ \E i \in 1..Len(ResourceEntries) : FailsToEncode(ResourceEntries[i].blk))
        => (ret.err # "" /\ ret.bytes = <<>>)

-----------------------------------------------------------------------------
(* Claims of SpecMarshal *)

\* C3: the value map of a resource block, after marshalAttributeValues and
\* after marshalBlock, has no key count.
C3_NoCountKey ==
    (pc \in {"children", "marshalled"} /\ block.type = "resource")
        => "count" \notin DOMAIN out.kv

C3_Witness ==
    /\ pc = "marshalled"
    /\ HasAttribute(block, "count")
    /\ HasAttribute(block, "ami")
    /\ DOMAIN out.kv = {"ami", "tags"}
    /\ HasAttribute(block.children[1], "count")
    /\ "count" \in DOMAIN out.kv.tags.list[1].kv

ChildrenOfKind(b, k) == SelectSeq(b.children, LAMBDA c : c.type = k)
KindsOf(b) == {b.children[i].type : i \in 1..Len(b.children)}

\* C9, as stated: for a block with children and whatever map
\* marshalAttributeValues returned for it, marshalBlock completes, each kind
\* of child gets a list with one element per child of that kind, and the
\* other keys are as they were.
C9_MarshalBlockCompletes ==
    (pc \notin {"values", "children"} /\ Len(block.children) > 0) =>
        /\ pc = "marshalled"
        /\ \A k \in KindsOf(block) :
            /\ k \in DOMAIN out.kv
            /\ Len(out.kv[k].list) = Len(ChildrenOfKind(block, k))
        /\ \A k \in DOMAIN out.kv \ KindsOf(block) :
            out.kv[k] = marshalAttributeValues(block.type, Values(block)).kv[k]

-----------------------------------------------------------------------------
(* Claims of SpecRefs *)

RECURSIVE Descendants(_)
Descendants(b) ==
    {b} \cup UNION {Descendants(b.children[i]) : i \in 1..Len(b.children)}

RECURSIVE NoEmptyEntry(_)
NoEmptyEntry(m) ==
    \A k \in DOMAIN m :
        IF "References" \in DOMAIN m[k]
        THEN Len(m[k].References) > 0
        ELSE /\ Len(m[k].list) > 0
             /\ \A i \in 1..Len(m[k].list) :
                    /\ DOMAIN m[k].list[i] # {}
                    /\ NoEmptyEntry(m[k].list[i])

OmissionComplete(b, m) ==
    /\ \A i \in 1..Len(b.attrs) :
        LET a == b.attrs[i]
        IN  IF Len(a.refs) = 0
            THEN a.name \notin DOMAIN m
            ELSE /\ a.name \in DOMAIN m
                 /\ Len(m[a.name].References) = Len(a.refs)
                 /\ \A j \in 1..Len(a.refs) :
                        m[a.name].References[j] =
                            a.refs[j].typeLabel \o "." \o a.refs[j].nameLabel
    /\ NoEmptyEntry(m)

\* C7: for the block and each of its descendants, an attribute without
\* references has no entry, an attribute with N references has an entry of
\* exactly those N addresses in order, and no entry is an empty list.
C7_OmissionComplete ==
    pc = "refsDone" =>
        /\ OmissionComplete(block, out)
        /\ \A d \in Descendants(block) : OmissionComplete(d, blockToReferences(d))

C7_Witness ==
    /\ pc = "refsDone"
    /\ Len(block.attrs) = 2
    /\ Len(block.attrs[1].refs) = 0
    /\ Len(block.attrs[2].refs) = 2
    /\ block.attrs[2].refs[1] # block.attrs[2].refs[2]
    /\ block.attrs[1].name \notin DOMAIN out
    /\ Len(out[block.attrs[2].name].References) = 2

ReferencingChildren(b, k) ==
    SelectSeq(ChildrenOfKind(b, k), LAMBDA c : DOMAIN blockToReferences(c) # {})

\* C8, as stated: for each kind of child with a child that yields references,
\* the result has that kind as a key, with one extraction result per such
\* child in order, however many attributes the block has.
C8_ChildEntries ==
    pc = "refsDone" =>
        \A k \in KindsOf(block) :
            ReferencingChildren(block, k) # <<>> =>
                /\ k \in DOMAIN out
                /\ out[k].list = [i \in 1..Len(ReferencingChildren(block, k)) |->
                                     blockToReferences(ReferencingChildren(block, k)[i])]

=============================================================================
